---- MODULE Spec2Model ----
(***************************************************************************)
(* A model of src/main.go: the main sequence of the tracer (resource       *)
(* limits, signal context, discovery, program load, filter configuration,  *)
(* the attach loop, the perf reader and the event loop), the two           *)
(* goroutines that wait on the signal context, and the deferred calls that *)
(* main runs when it returns.  log.Fatalf ends the process with status 1   *)
(* at once: the deferred calls are not run.                                *)
(***************************************************************************)
EXTENDS Integers, Sequences, FiniteSets, TLC

\* ---- bounds of the model ----
NumFuncs == 2          \* names a discovered catalog may hold
LifeReads == 1         \* reads that return a record, attach-side specification
MaxReads == 2          \* reads that return a record, event-side specification
EventSize == 1         \* bytes of the fixed event layout (scaled down)

\* ---- program constant ----
NumVariants == 5       \* kprobe1 .. kprobe5

Names == 1..NumFuncs
Positions == 0..(NumVariants + 1)
Bytes == {0, 1}
LostCounts == {1, 2}

\* funcs as returned by pwru.GetFuncs: a map name -> argument position.
Catalogs == UNION {[D -> Positions] : D \in SUBSET Names}
SmallCatalogs == UNION {[D -> Positions] : D \in SUBSET {1}}
PairCatalogs == UNION {[D -> Positions] : D \in SUBSET {1, 2}}

\* perf.Record: a sample carries RawSample, a loss notice carries LostSamples.
ZeroRecord == [LostSamples |-> 0, RawSample |-> <<>>]
Samples == UNION {[1..n -> Bytes] : n \in 0..(EventSize + 1)}
Records ==
    {[LostSamples |-> 0, RawSample |-> s] : s \in Samples}
    \cup {[LostSamples |-> n, RawSample |-> <<>>] : n \in LostCounts}
LifeRecords ==
    {r \in Records :
        /\ r.LostSamples = 0
        /\ Len(r.RawSample) = EventSize
        /\ \A i \in 1..Len(r.RawSample) : r.RawSample[i] = 1}

VARIABLES
    pc,          \* position of main
    exitStatus,  \* -1 while the process runs, then the exit status
    fatalAt,     \* which log.Fatalf ended the process ("" if none)
    registered,  \* signal.NotifyContext is in force
    cancelled,   \* ctx.Done() is closed
    funcs,       \* the catalog
    addr2name,   \* TRUE once pwru.GetAddrs has returned
    cfgWritten,  \* TRUE once pwru.ConfigBPFMap has written cfgMap
    pending,     \* catalog entries the range loop has not finished yet
    name,        \* entry of the iteration in progress (0 if none)
    fn,          \* probe variant selected for it (0 if none)
    ignored,     \* the ignored counter
    bar,         \* progress bar count
    summary,     \* value printed by "Attached (ignored %d)", -1 before
    attempts,    \* log of link.Kprobe calls
    deferred,    \* main's stack of deferred calls
    closeLog,    \* log of Close()/stop() calls, in order
    rd,          \* the perf reader: "none", "open", "closed"
    observer,    \* second goroutine: "none", "waiting", "done"
    record,      \* result of the last rd.Read()
    err,         \* its error: "nil", "closed", "other"
    event,       \* var event pwru.Event, reused across iterations
    delivered,   \* log of what rd.Read() returned
    output,      \* lines rendered by output.Print
    lossLog,     \* counts logged by "dropped %d samples"
    parseErrs,   \* "Parsing perf event" log lines
    readErrs,    \* "Reading from perf event reader" log lines
    handled,     \* records the loop body has dealt with
    selDone      \* times the select after a print found ctx.Done() closed

vars ==
    <<pc, exitStatus, fatalAt, registered, cancelled, funcs,
      addr2name, cfgWritten, pending, name, fn, ignored, bar, summary,
      attempts, deferred, closeLog, rd, observer, record, err, event,
      delivered, output, lossLog, parseErrs, readErrs, handled,
      selDone>>

startupVars == <<funcs, addr2name, cfgWritten>>
loopVars == <<pending, name, fn, ignored, bar, summary, attempts>>
readerVars == <<rd, observer>>
eventVars ==
    <<record, err, event, delivered, output, lossLog, parseErrs, readErrs,
      handled, selDone>>
sigVars == <<registered, cancelled>>

Init ==
    /\ pc = "rlimit_nofile"
    /\ exitStatus = -1
    /\ fatalAt = ""
    /\ registered = FALSE
    /\ cancelled = FALSE
    /\ funcs = <<>>
    /\ addr2name = FALSE
    /\ cfgWritten = FALSE
    /\ pending = {}
    /\ name = 0
    /\ fn = 0
    /\ ignored = 0
    /\ bar = 0
    /\ summary = -1
    /\ attempts = <<>>
    /\ deferred = <<>>
    /\ closeLog = <<>>
    /\ rd = "none"
    /\ observer = "none"
    /\ record = ZeroRecord
    /\ err = "nil"
    /\ event = 0
    /\ delivered = <<>>
    /\ output = <<>>
    /\ lossLog = <<>>
    /\ parseErrs = 0
    /\ readErrs = 0
    /\ handled = 0
    /\ selDone = 0

\* log.Fatalf: os.Exit(1), no deferred call runs.
Fatalf(where) ==
    /\ pc' = "exited"
    /\ exitStatus' = 1
    /\ fatalAt' = where

Goto(label) ==
    /\ pc' = label
    /\ UNCHANGED <<exitStatus, fatalAt>>

\* ---- startup, lines 55-113 ----

SetRlimitNofile ==
    /\ pc = "rlimit_nofile"
    /\ \/ Goto("rlimit_memlock")
       \/ Fatalf("rlimit_nofile")
    /\ UNCHANGED <<sigVars, startupVars, loopVars, deferred, closeLog,
                   readerVars, eventVars>>

SetRlimitMemlock ==
    /\ pc = "rlimit_memlock"
    /\ \/ Goto("notify")
       \/ Fatalf("rlimit_memlock")
    /\ UNCHANGED <<sigVars, startupVars, loopVars, deferred, closeLog,
                   readerVars, eventVars>>

\* ctx, stop := signal.NotifyContext(...); go func(){...}(); defer stop()
NotifyContext ==
    /\ pc = "notify"
    /\ registered' = TRUE
    /\ deferred' = Append(deferred, [kind |-> "stop", name |-> 0])
    /\ Goto("getfuncs")
    /\ UNCHANGED <<cancelled, startupVars, loopVars, closeLog,
                   readerVars, eventVars>>

GetFuncs(cats) ==
    /\ pc = "getfuncs"
    /\ \/ /\ \E c \in cats :
                /\ funcs' = c
                /\ pending' = DOMAIN c
          /\ Goto("getaddrs")
       \/ /\ Fatalf("getfuncs")
          /\ UNCHANGED <<funcs, pending>>
    /\ UNCHANGED <<sigVars, addr2name, cfgWritten, name, fn, ignored, bar,
                   summary, attempts, deferred, closeLog, readerVars,
                   eventVars>>

\* Mutant: the error of pwru.GetAddrs is not checked.
GetAddrs_unchecked ==
    /\ pc = "getaddrs"
    /\ \/ addr2name' = TRUE
       \/ UNCHANGED addr2name
    /\ Goto("load")
    /\ UNCHANGED <<sigVars, funcs, cfgWritten, loopVars, deferred, closeLog,
                   readerVars, eventVars>>

GetAddrs ==
    /\ pc = "getaddrs"
    /\ \/ /\ addr2name' = TRUE
          /\ Goto("load")
       \/ /\ Fatalf("getaddrs")
          /\ UNCHANGED addr2name
    /\ UNCHANGED <<sigVars, funcs, cfgWritten, loopVars, deferred, closeLog,
                   readerVars, eventVars>>

\* Either branch of "if *flags.OutputSkb": load the objects, defer objs.Close().
LoadObjects ==
    /\ pc = "load"
    /\ \/ /\ deferred' = Append(deferred, [kind |-> "objs", name |-> 0])
          /\ Goto("config")
       \/ /\ Fatalf("load")
          /\ UNCHANGED deferred
    /\ UNCHANGED <<sigVars, startupVars, loopVars, closeLog, readerVars,
                   eventVars>>

\* Mutant: the attach loop is entered without the filter slot written.
ConfigBPFMap_unwritten ==
    /\ pc = "config"
    /\ ignored' = 0
    /\ bar' = 0
    /\ Goto("loop")
    /\ UNCHANGED <<sigVars, startupVars, pending, name, fn, summary,
                   attempts, deferred, closeLog, readerVars, eventVars>>

\* pwru.ConfigBPFMap(&flags, cfgMap); log; ignored := 0; bar := pb.StartNew
ConfigBPFMap ==
    /\ pc = "config"
    /\ cfgWritten' = TRUE
    /\ ignored' = 0
    /\ bar' = 0
    /\ Goto("loop")
    /\ UNCHANGED <<sigVars, funcs, addr2name, pending, name, fn, summary,
                   attempts, deferred, closeLog, readerVars, eventVars>>

\* ---- the attach loop, lines 118-152 ----

\* Mutant: case 5 selects kprobe4.
selectVariant_shifted(pos) ==
    CASE pos = 1 -> 1
      [] pos = 2 -> 2
      [] pos = 3 -> 3
      [] pos = 4 -> 4
      [] pos = 5 -> 4
      [] OTHER -> 0

\* Mutant: no default case, so the initial fn := kprobe1 is used.
selectVariant_nodefault(pos) ==
    CASE pos = 1 -> 1
      [] pos = 2 -> 2
      [] pos = 3 -> 3
      [] pos = 4 -> 4
      [] pos = 5 -> 5
      [] OTHER -> 1

\* The switch on pos: the variant for positions 1..5, 0 for the default case.
selectVariant(pos) ==
    CASE pos = 1 -> 1
      [] pos = 2 -> 2
      [] pos = 3 -> 3
      [] pos = 4 -> 4
      [] pos = 5 -> 5
      [] OTHER -> 0

\* One pass from the head of the range loop to the call of link.Kprobe:
\* the switch, then the non-blocking check of ctx.Done().
LoopHead ==
    /\ pc = "loop"
    /\ pending # {}
    /\ \E n \in pending :
          LET v == selectVariant(funcs[n]) IN
            IF v = 0
            THEN /\ ignored' = ignored + 1
                 /\ pending' = pending \ {n}
                 /\ Goto("loop")
                 /\ UNCHANGED <<name, fn>>
            ELSE IF cancelled
            THEN /\ Goto("unwind")
                 /\ UNCHANGED <<ignored, pending, name, fn>>
            ELSE /\ name' = n
                 /\ fn' = v
                 /\ Goto("attach")
                 /\ UNCHANGED <<ignored, pending>>
    /\ UNCHANGED <<sigVars, startupVars, bar, summary, attempts, deferred,
                   closeLog, readerVars, eventVars>>

\* Mutant: a missing symbol is tolerated but not counted.
Kprobe_uncounted ==
    /\ pc = "attach"
    /\ bar' = bar + 1
    /\ \E res \in {"ok", "notexist", "other"} :
          /\ attempts' = Append(attempts,
                [name |-> name, fn |-> fn, res |-> res, late |-> cancelled])
          /\ CASE res = "ok" ->
                    /\ deferred' = Append(deferred, [kind |-> "kp", name |-> name])
                    /\ pending' = pending \ {name}
                    /\ Goto("loop")
               [] res = "notexist" ->
                    /\ pending' = pending \ {name}
                    /\ Goto("loop")
                    /\ UNCHANGED deferred
               [] OTHER ->
                    /\ Fatalf("kprobe")
                    /\ UNCHANGED <<pending, deferred>>
    /\ UNCHANGED <<sigVars, startupVars, name, fn, ignored, summary, closeLog,
                   readerVars, eventVars>>

\* Mutant: every error of link.Kprobe is fatal, a missing symbol too.
Kprobe_strict ==
    /\ pc = "attach"
    /\ bar' = bar + 1
    /\ \E res \in {"ok", "notexist", "other"} :
          /\ attempts' = Append(attempts,
                [name |-> name, fn |-> fn, res |-> res, late |-> cancelled])
          /\ CASE res = "ok" ->
                    /\ deferred' = Append(deferred, [kind |-> "kp", name |-> name])
                    /\ pending' = pending \ {name}
                    /\ Goto("loop")
               [] OTHER ->
                    /\ Fatalf("kprobe")
                    /\ UNCHANGED <<pending, deferred>>
    /\ UNCHANGED <<sigVars, startupVars, name, fn, ignored, summary, closeLog,
                   readerVars, eventVars>>

\* kp, err := link.Kprobe(name, fn); bar.Increment(); the handling of err.
Kprobe ==
    /\ pc = "attach"
    /\ bar' = bar + 1
    /\ \E res \in {"ok", "notexist", "other"} :
          /\ attempts' = Append(attempts,
                [name |-> name, fn |-> fn, res |-> res, late |-> cancelled])
          /\ CASE res = "ok" ->
                    /\ deferred' = Append(deferred, [kind |-> "kp", name |-> name])
                    /\ pending' = pending \ {name}
                    /\ Goto("loop")
                    /\ UNCHANGED ignored
               [] res = "notexist" ->
                    /\ ignored' = ignored + 1
                    /\ pending' = pending \ {name}
                    /\ Goto("loop")
                    /\ UNCHANGED deferred
               [] OTHER ->
                    /\ Fatalf("kprobe")
                    /\ UNCHANGED <<ignored, pending, deferred>>
    /\ UNCHANGED <<sigVars, startupVars, name, fn, summary, closeLog,
                   readerVars, eventVars>>

\* bar.Finish(); fmt.Printf("Attached (ignored %d)\n", ignored)
LoopDone ==
    /\ pc = "loop"
    /\ pending = {}
    /\ summary' = ignored
    /\ Goto("newreader")
    /\ UNCHANGED <<sigVars, startupVars, pending, name, fn, ignored, bar,
                   attempts, deferred, closeLog, readerVars, eventVars>>

\* ---- the reader and the event loop, lines 156-203 ----

\* rd, err := perf.NewReader(...); defer rd.Close()
NewReader ==
    /\ pc = "newreader"
    /\ \/ /\ rd' = "open"
          /\ deferred' = Append(deferred, [kind |-> "rd", name |-> 0])
          /\ Goto("observe")
       \/ /\ Fatalf("newreader")
          /\ UNCHANGED <<rd, deferred>>
    /\ UNCHANGED <<sigVars, startupVars, loopVars, closeLog, observer,
                   eventVars>>

\* go func() { <-ctx.Done(); rd.Close() ... }(); NewOutput; PrintHeader
StartObserver ==
    /\ pc = "observe"
    /\ observer' = "waiting"
    /\ Goto("read")
    /\ UNCHANGED <<sigVars, startupVars, loopVars, deferred, closeLog, rd,
                   eventVars>>

\* Mutant: a failed read leaves the record of the iteration before in place.
Read_staleOnError(recs, maxReads) ==
    /\ pc = "read"
    /\ \/ /\ rd = "closed"
          /\ record' = ZeroRecord
          /\ err' = "closed"
       \/ /\ rd = "open"
          /\ Len(delivered) < maxReads
          /\ \/ /\ \E r \in recs : record' = r
                /\ err' = "nil"
             \/ /\ record' = record
                /\ err' = "other"
    /\ delivered' = Append(delivered, [record |-> record', err |-> err'])
    /\ Goto("body")
    /\ UNCHANGED <<sigVars, startupVars, loopVars, deferred, closeLog,
                   readerVars, event, output, lossLog, parseErrs, readErrs,
                   handled, selDone>>

\* record, err := rd.Read(): blocks until a record arrives or rd is closed.
Read(recs, maxReads) ==
    /\ pc = "read"
    /\ \/ /\ rd = "closed"
          /\ record' = ZeroRecord
          /\ err' = "closed"
       \/ /\ rd = "open"
          /\ Len(delivered) < maxReads
          /\ \/ /\ \E r \in recs : record' = r
                /\ err' = "nil"
             \/ /\ record' = ZeroRecord
                /\ err' = "other"
    /\ delivered' = Append(delivered, [record |-> record', err |-> err'])
    /\ Goto("body")
    /\ UNCHANGED <<sigVars, startupVars, loopVars, deferred, closeLog,
                   readerVars, event, output, lossLog, parseErrs, readErrs,
                   handled, selDone>>

RECURSIVE LittleEndian(_)
LittleEndian(bs) ==
    IF bs = <<>> THEN 0 ELSE Head(bs) + 256 * LittleEndian(Tail(bs))

\* Mutant: the bytes at hand are decoded without a length check.
binaryRead_unchecked(raw, ev) ==
    [err |-> FALSE, event |-> LittleEndian(raw)]

\* binary.Read(bytes.NewBuffer(raw), binary.LittleEndian, &event): fails
\* (io.EOF, io.ErrUnexpectedEOF) on fewer bytes than the layout and leaves
\* event alone; otherwise decodes the first EventSize bytes.
binaryRead(raw, ev) ==
    IF Len(raw) < EventSize
    THEN [err |-> TRUE, event |-> ev]
    ELSE [err |-> FALSE, event |-> LittleEndian(SubSeq(raw, 1, EventSize))]

\* Mutant: a loss notice is logged as one lost sample, whatever its count.
handle_lossOne(rec, ev) ==
    IF rec.LostSamples # 0
    THEN [kind |-> "loss", lost |-> 1, event |-> ev]
    ELSE LET d == binaryRead(rec.RawSample, ev) IN
         IF d.err
         THEN [kind |-> "parse", lost |-> 0, event |-> ev]
         ELSE [kind |-> "print", lost |-> 0, event |-> d.event]

\* Mutant: the line is printed from event as it was before the decode.
handle_stale(rec, ev) ==
    IF rec.LostSamples # 0
    THEN [kind |-> "loss", lost |-> rec.LostSamples, event |-> ev]
    ELSE LET d == binaryRead(rec.RawSample, ev) IN
         IF d.err
         THEN [kind |-> "parse", lost |-> 0, event |-> ev]
         ELSE [kind |-> "print", lost |-> 0, event |-> ev]

\* What the loop body does with a record, lines 185-195: log a loss notice,
\* log a record that does not decode, or print the decoded event.
handle(rec, ev) ==
    IF rec.LostSamples # 0
    THEN [kind |-> "loss", lost |-> rec.LostSamples, event |-> ev]
    ELSE LET d == binaryRead(rec.RawSample, ev) IN
         IF d.err
         THEN [kind |-> "parse", lost |-> 0, event |-> ev]
         ELSE [kind |-> "print", lost |-> 0, event |-> d.event]

\* Mutant: any error of rd.Read() makes main return, not only Closed.
Body_returnOnError ==
    /\ pc = "body"
    /\ IF err # "nil"
       THEN /\ Goto("unwind")
            /\ UNCHANGED <<event, output, lossLog, parseErrs, readErrs,
                           handled, selDone>>
       ELSE LET h == handle(record, event) IN
            /\ handled' = handled + 1
            /\ lossLog' = IF h.kind = "loss"
                          THEN Append(lossLog, h.lost) ELSE lossLog
            /\ parseErrs' = IF h.kind = "parse"
                            THEN parseErrs + 1 ELSE parseErrs
            /\ event' = h.event
            /\ output' = IF h.kind = "print"
                         THEN Append(output, h.event) ELSE output
            /\ selDone' = IF h.kind = "print" /\ cancelled
                          THEN selDone + 1 ELSE selDone
            /\ Goto("read")
            /\ UNCHANGED readErrs
    /\ UNCHANGED <<sigVars, startupVars, loopVars, deferred, closeLog,
                   readerVars, record, err, delivered>>

\* Mutant: break in the select leaves the for loop, so main returns.
Body_breakLeaves ==
    /\ pc = "body"
    /\ IF err = "closed"
       THEN /\ Goto("unwind")
            /\ UNCHANGED <<event, output, lossLog, parseErrs, readErrs,
                           handled, selDone>>
       ELSE LET h == handle(record, event) IN
            /\ handled' = handled + 1
            /\ readErrs' = IF err = "other" THEN readErrs + 1 ELSE readErrs
            /\ lossLog' = IF h.kind = "loss"
                          THEN Append(lossLog, h.lost) ELSE lossLog
            /\ parseErrs' = IF h.kind = "parse"
                            THEN parseErrs + 1 ELSE parseErrs
            /\ event' = h.event
            /\ output' = IF h.kind = "print"
                         THEN Append(output, h.event) ELSE output
            /\ selDone' = IF h.kind = "print" /\ cancelled
                          THEN selDone + 1 ELSE selDone
            /\ IF h.kind = "print" /\ cancelled
               THEN Goto("unwind")
               ELSE Goto("read")
    /\ UNCHANGED <<sigVars, startupVars, loopVars, deferred, closeLog,
                   readerVars, record, err, delivered>>

\* The loop body after rd.Read() returned, lines 178-202.  The select at the
\* end continues the loop on either branch: break leaves the select only.
Body ==
    /\ pc = "body"
    /\ IF err = "closed"
       THEN /\ Goto("unwind")
            /\ UNCHANGED <<event, output, lossLog, parseErrs, readErrs,
                           handled, selDone>>
       ELSE LET h == handle(record, event) IN
            /\ handled' = handled + 1
            /\ readErrs' = IF err = "other" THEN readErrs + 1 ELSE readErrs
            /\ lossLog' = IF h.kind = "loss"
                          THEN Append(lossLog, h.lost) ELSE lossLog
            /\ parseErrs' = IF h.kind = "parse"
                            THEN parseErrs + 1 ELSE parseErrs
            /\ event' = h.event
            /\ output' = IF h.kind = "print"
                         THEN Append(output, h.event) ELSE output
            /\ selDone' = IF h.kind = "print" /\ cancelled
                          THEN selDone + 1 ELSE selDone
            /\ Goto("read")
    /\ UNCHANGED <<sigVars, startupVars, loopVars, deferred, closeLog,
                   readerVars, record, err, delivered>>

\* ---- the goroutines and the signal ----

\* SIGINT or SIGTERM arrives while the NotifyContext registration is in force.
Signal ==
    /\ pc # "exited"
    /\ registered
    /\ ~cancelled
    /\ cancelled' = TRUE
    /\ UNCHANGED <<pc, exitStatus, fatalAt, registered, startupVars,
                   loopVars, deferred, closeLog, readerVars,
                   eventVars>>

\* The first goroutine, lines 69-72, only writes a log line when ctx is done:
\* it changes nothing the rest of the program reads.

\* Mutant: the observer returns without closing the reader.
Observer_noClose ==
    /\ pc # "exited"
    /\ observer = "waiting"
    /\ cancelled
    /\ observer' = "done"
    /\ UNCHANGED <<pc, exitStatus, fatalAt, sigVars, startupVars, loopVars,
                   deferred, closeLog, rd, eventVars>>

\* Mutant: on the signal the observer closes the probes as well as the reader.
Observer_releases ==
    /\ pc # "exited"
    /\ observer = "waiting"
    /\ cancelled
    /\ closeLog' = Append(closeLog, [kind |-> "rd", name |-> 0])
                      \o [i \in 1..Len(attempts) |->
                            [kind |-> "kp", name |-> attempts[i].name]]
    /\ rd' = "closed"
    /\ observer' = "done"
    /\ UNCHANGED <<pc, exitStatus, fatalAt, sigVars, startupVars, loopVars,
                   deferred, eventVars>>

\* Second goroutine, lines 162-168.
Observer ==
    /\ pc # "exited"
    /\ observer = "waiting"
    /\ cancelled
    /\ closeLog' = Append(closeLog, [kind |-> "rd", name |-> 0])
    /\ \/ /\ rd' = "closed"
          /\ observer' = "done"
          /\ UNCHANGED <<pc, exitStatus, fatalAt>>
       \/ /\ Fatalf("rdclose")
          /\ UNCHANGED <<rd, observer>>
    /\ UNCHANGED <<sigVars, startupVars, loopVars, deferred, eventVars>>

\* ---- return from main: the deferred calls, last deferred first ----

\* Mutant: the deferred calls run first deferred first.
RunDeferred_fifo ==
    /\ pc = "unwind"
    /\ deferred # <<>>
    /\ LET d == deferred[1] IN
          /\ deferred' = SubSeq(deferred, 2, Len(deferred))
          /\ closeLog' = Append(closeLog, d)
          /\ rd' = IF d.kind = "rd" THEN "closed" ELSE rd
          /\ registered' = IF d.kind = "stop" THEN FALSE ELSE registered
          /\ cancelled' = IF d.kind = "stop" THEN TRUE ELSE cancelled
    /\ UNCHANGED <<pc, exitStatus, fatalAt, startupVars,
                   loopVars, observer, eventVars>>

RunDeferred ==
    /\ pc = "unwind"
    /\ deferred # <<>>
    /\ LET d == deferred[Len(deferred)] IN
          /\ deferred' = SubSeq(deferred, 1, Len(deferred) - 1)
          /\ closeLog' = Append(closeLog, d)
          /\ rd' = IF d.kind = "rd" THEN "closed" ELSE rd
          /\ registered' = IF d.kind = "stop" THEN FALSE ELSE registered
          /\ cancelled' = IF d.kind = "stop" THEN TRUE ELSE cancelled
    /\ UNCHANGED <<pc, exitStatus, fatalAt, startupVars,
                   loopVars, observer, eventVars>>

\* Mutant: the process exits with status 0 without running what is deferred.
Exit_skipDeferred ==
    /\ pc = "unwind"
    /\ pc' = "exited"
    /\ exitStatus' = 0
    /\ UNCHANGED <<fatalAt, sigVars, startupVars, loopVars, deferred,
                   closeLog, readerVars, eventVars>>

\* main has returned: the process exits with status 0.
Exit ==
    /\ pc = "unwind"
    /\ deferred = <<>>
    /\ pc' = "exited"
    /\ exitStatus' = 0
    /\ UNCHANGED <<fatalAt, sigVars, startupVars, loopVars, deferred,
                   closeLog, readerVars, eventVars>>

\* ---- specifications ----

Main(cats, recs, maxReads) ==
    \/ SetRlimitNofile
    \/ SetRlimitMemlock
    \/ NotifyContext
    \/ GetFuncs(cats)
    \/ GetAddrs
    \/ LoadObjects
    \/ ConfigBPFMap
    \/ LoopHead
    \/ Kprobe
    \/ LoopDone
    \/ NewReader
    \/ StartObserver
    \/ Read(recs, maxReads)
    \/ Body
    \/ RunDeferred
    \/ Exit

NextOf(cats, recs, maxReads) ==
    \/ Main(cats, recs, maxReads)
    \/ Signal
    \/ Observer

\* The whole run over every catalog, with a short event phase.
Next == NextOf(Catalogs, LifeRecords, LifeReads)
Spec == Init /\ [][Next]_vars

\* The whole run over the small catalogs, with every kind of record.
EventNext == NextOf(SmallCatalogs, Records, MaxReads)
EventSpec == Init /\ [][EventNext]_vars

\* The run over catalogs of up to two entries under fair scheduling: main takes its next
\* step whenever it has one (every call returns), and the observer goroutine
\* runs once ctx is done.  The signal and the arrival of records are not fair.
LiveNext == NextOf(PairCatalogs, LifeRecords, LifeReads)
LiveSpec ==
    /\ Init
    /\ [][LiveNext]_vars
    /\ WF_vars(Main(PairCatalogs, LifeRecords, LifeReads))
    /\ WF_vars(Observer)

\* ---- vocabulary of the properties ----

Oks == {i \in DOMAIN attempts : attempts[i].res = "ok"}
AttachedCount == Cardinality(Oks)
Obtained(n) == Cardinality({i \in Oks : attempts[i].name = n})
Released(n) ==
    Cardinality({i \in DOMAIN closeLog :
                    closeLog[i].kind = "kp" /\ closeLog[i].name = n})
AllReleasedOnce == \A n \in Names : Released(n) = Obtained(n)
LateAttempts == {i \in DOMAIN attempts : attempts[i].late}
InRange(n) == funcs[n] \in 1..NumVariants
AttemptsOf(n) == {i \in DOMAIN attempts : attempts[i].name = n}

\* C1: every handle obtained by a successful attachment is released exactly
\* once on every exit path: none is released twice, and none is left
\* unreleased when the process has terminated.
C1_ReleasedOnEveryExit ==
    /\ \A n \in Names : Released(n) <= Obtained(n)
    /\ pc = "exited" => AllReleasedOnce

\* C2: once the signal is raised while the attach loop runs, at most one more
\* attempt is made (the one whose check had passed), and when the run has
\* ended every probe attached so far has been released exactly once.
C2_CancelStopsAndReleases ==
    /\ Cardinality(LateAttempts) <= 1
    /\ (pc = "exited" /\ LateAttempts # {}) => AllReleasedOnce

\* The part of C2 about attempts alone.
AtMostOneLateAttempt == Cardinality(LateAttempts) <= 1

\* C3: the filter configuration is written before the first attachment
\* attempt: no state has an attempt made or under way with the slot unwritten.
C3_ConfigBeforeAttach ==
    (attempts # <<>> \/ pc = "attach") => cfgWritten

C3_Witness == AttachedCount >= 1 /\ cfgWritten

\* C4: attached + ignored equals the number of catalog entries the loop has
\* finished, at every point, and the catalog size once the loop is through.
C4_CountsAddUp ==
    /\ AttachedCount + ignored
          = Cardinality(DOMAIN funcs) - Cardinality(pending)
    /\ summary # -1 =>
          /\ AttachedCount + ignored = Cardinality(DOMAIN funcs)
          /\ summary = ignored

C4_Witness == summary # -1 /\ AttachedCount >= 1 /\ ignored >= 1

\* C5: an entry whose position is in 1..5 gets exactly one attempt once the
\* loop has finished with it (never more than one before), and every attempt
\* uses the variant whose index is the entry's position.
C5_OneAttemptByPosition ==
    /\ \A i \in DOMAIN attempts : attempts[i].fn = funcs[attempts[i].name]
    /\ pc = "attach" => fn = funcs[name]
    /\ \A n \in DOMAIN funcs :
          InRange(n) =>
             IF n \in pending
             THEN Cardinality(AttemptsOf(n)) <= 1
             ELSE Cardinality(AttemptsOf(n)) = 1

C5_Witness ==
    /\ pending = {}
    /\ Len(attempts) = 2
    /\ attempts[1].fn # attempts[2].fn

\* C6: an entry whose position is outside 1..5 never gets an attempt, and it
\* adds exactly one to the ignored counter: the counter is the number of such
\* entries the loop has passed plus the number of missing-symbol failures.
C6_OutOfRangeIgnored ==
    /\ \A n \in DOMAIN funcs : ~InRange(n) => AttemptsOf(n) = {}
    /\ ignored
          = Cardinality({n \in DOMAIN funcs \ pending : ~InRange(n)})
            + Cardinality({i \in DOMAIN attempts :
                              attempts[i].res = "notexist"})

C6_Witness ==
    /\ summary = 2
    /\ \E n, m \in DOMAIN funcs : funcs[n] = 0 /\ funcs[m] = NumVariants + 1

C8_SignalTerminates == cancelled ~> (pc = "exited")

C8_Witness == pc = "exited" /\ exitStatus = 0 /\ observer = "done"

\* ---- vocabulary of the event loop's properties ----

\* What rd.Read() has returned and the loop body has dealt with.
Handled == SubSeq(delivered, 1, handled)
IsLoss(d) == d.err = "nil" /\ d.record.LostSamples # 0
IsValid(d) ==
    /\ d.err = "nil"
    /\ d.record.LostSamples = 0
    /\ Len(d.record.RawSample) >= EventSize
IsShort(d) ==
    /\ d.err = "nil"
    /\ d.record.LostSamples = 0
    /\ Len(d.record.RawSample) < EventSize
IsReadError(d) == d.err = "other"

RECURSIVE SumSeq(_)
SumSeq(q) == IF q = <<>> THEN 0 ELSE Head(q) + SumSeq(Tail(q))

RECURSIVE LostIn(_)
LostIn(ds) ==
    IF ds = <<>> THEN 0 ELSE Head(ds).record.LostSamples + LostIn(Tail(ds))

\* The events of the valid records of ds, in order.
RECURSIVE EventsOf(_)
EventsOf(ds) ==
    IF ds = <<>> THEN <<>>
    ELSE (IF IsValid(Head(ds))
          THEN <<LittleEndian(SubSeq(Head(ds).record.RawSample, 1, EventSize))>>
          ELSE <<>>) \o EventsOf(Tail(ds))

\* C9: with N samples reported lost over M loss notices, the loop has logged M
\* counts that sum to N, has rendered one line per valid record and none for a
\* notice, and no fatal error comes out of the loop body.
C9_LossAccounting ==
    /\ SumSeq(lossLog) = LostIn(Handled)
    /\ Len(lossLog) = Len(SelectSeq(Handled, IsLoss))
    /\ Len(output) = Len(SelectSeq(Handled, IsValid))
    /\ (exitStatus = 1 /\ delivered # <<>>) => fatalAt = "rdclose"

C9_Witness ==
    /\ pc = "read"
    /\ Len(delivered) = 2
    /\ delivered[1].record.LostSamples = 2
    /\ IsValid(delivered[2])
    /\ lossLog = <<2>>
    /\ Len(output) = 1

\* C10: a record shorter than the event layout is logged and not rendered, and
\* the records after it are still processed: the rendered lines are exactly
\* the events of the valid records read, in order, and there is one parse log
\* line per short record (a failed read leaves an empty record, also short);
\* after a short record main is back at rd.Read(), unless the observer's
\* failing rd.Close() has ended the process meanwhile.
C10_ShortRecordSkipped ==
    /\ output = EventsOf(Handled)
    /\ parseErrs
          = Len(SelectSeq(Handled, IsShort))
            + Len(SelectSeq(Handled, IsReadError))
    /\ (handled = Len(delivered) /\ handled > 0 /\ IsShort(delivered[handled]))
          => (pc = "read" \/ fatalAt = "rdclose")

C10_Witness ==
    /\ pc = "read"
    /\ Len(delivered) = 2
    /\ IsShort(delivered[1])
    /\ IsValid(delivered[2])
    /\ parseErrs = 1
    /\ Len(output) = 1

\* ---- properties of the fatal paths and of the startup ----

StartupFatals ==
    {"rlimit_nofile", "rlimit_memlock", "getfuncs", "getaddrs", "load"}
HasUnexpected == \E i \in DOMAIN attempts : attempts[i].res = "other"

\* C11: an attempt that fails with an error other than symbol-not-present is
\* fatal: it is the last attempt, the process has ended with status 1, and
\* the probes attached before it have been released.
C11_UnexpectedFailureReleases ==
    HasUnexpected =>
       /\ attempts[Len(attempts)].res = "other"
       /\ \A i \in 1..(Len(attempts) - 1) : attempts[i].res # "other"
       /\ pc = "exited" /\ exitStatus = 1
       /\ AllReleasedOnce

\* The part of C11 about aborting alone.
UnexpectedFailureAborts ==
    HasUnexpected =>
       /\ attempts[Len(attempts)].res = "other"
       /\ \A i \in 1..(Len(attempts) - 1) : attempts[i].res # "other"
       /\ pc = "exited" /\ exitStatus = 1 /\ fatalAt = "kprobe"

\* C12: with an empty catalog the run never reaches the attach loop or the
\* event loop and does not end with status 0.
C12_EmptyCatalogFatal ==
    DOMAIN funcs = {} =>
       /\ pc \notin {"loop", "attach", "newreader", "observe", "read",
                     "body", "unwind"}
       /\ exitStatus # 0

\* ---- properties of the running event loop ----

\* C13: once the event loop has started the run ends only through a read that
\* returned Closed (after the signal) or through a fatal error: after a loss
\* notice, a record that does not decode or a failed read, main is back at
\* rd.Read(), where it waits without a timeout.
C13_LoopEndsOnlyOnClosed ==
    /\ (observer # "none" /\ pc \in {"unwind", "exited"})
          => ((err = "closed" /\ cancelled) \/ fatalAt = "rdclose")
    /\ (handled > 0 /\ handled = Len(delivered))
          => (pc = "read" \/ fatalAt = "rdclose")

C13_Witness ==
    /\ pc = "read"
    /\ handled = 2
    /\ IsLoss(delivered[1])
    /\ IsReadError(delivered[2])

\* C14: every decoded event is rendered exactly once and before the next read
\* is issued: the rendered lines are the events of the valid records in the
\* order read, and at most one record read is not yet dealt with, none when
\* main is at rd.Read().
C14_RenderedOnceInOrder ==
    /\ output = EventsOf(Handled)
    /\ Len(output) = Len(SelectSeq(Handled, IsValid))
    /\ Len(delivered) - handled \in {0, 1}
    /\ pc = "read" => handled = Len(delivered)

C14_Witness ==
    /\ pc = "read"
    /\ Len(output) = 2
    /\ output[1] # output[2]
    /\ output = EventsOf(delivered)

\* ---- properties of the attach loop's failures and of the handles ----

\* C15: an attempt that fails because the symbol is not present adds one to
\* the ignored counter, is not fatal and leaves the exit status alone, and the
\* loop goes on with the entries that remain; a fatal exit out of link.Kprobe
\* is never due to a missing symbol.
C15_MissingSymbolTolerated ==
    /\ [][(/\ pc = "attach"
           /\ Len(attempts') = Len(attempts) + 1
           /\ attempts'[Len(attempts')].res = "notexist")
          => (/\ ignored' = ignored + 1
              /\ pc' = "loop"
              /\ pending' = pending \ {name}
              /\ exitStatus' = exitStatus
              /\ fatalAt' = fatalAt)]_vars
    /\ [](fatalAt = "kprobe" => attempts[Len(attempts)].res = "other")

C15_Witness ==
    /\ exitStatus = 0
    /\ Len(attempts) = 2
    /\ attempts[1].res = "notexist"
    /\ attempts[2].res = "ok"
    /\ ignored = 1

IsKp(d) == d.kind = "kp"
KpCloses == SelectSeq(closeLog, IsKp)
KpDeferred == SelectSeq(deferred, IsKp)
InEventLoop == pc \in {"observe", "read", "body"}

\* C16: handles are added only by link.Kprobe in the attach loop and released
\* only while main unwinds; from the construction of the reader until the
\* event loop is left no step adds or releases one.
C16_HandlesStableInEventLoop ==
    [][/\ InEventLoop =>
            (/\ attempts' = attempts
             /\ KpCloses' = KpCloses
             /\ KpDeferred' = KpDeferred)
       /\ KpDeferred' # KpDeferred => pc \in {"attach", "unwind"}
       /\ attempts' # attempts => pc = "attach"
       /\ KpCloses' # KpCloses => pc = "unwind"]_vars

C16_Witness ==
    /\ pc = "read"
    /\ handled >= 1
    /\ cancelled
    /\ AttachedCount >= 1
    /\ KpCloses = <<>>
    /\ Len(KpDeferred) = AttachedCount

\* The objects were loaded: objs.Close() is deferred or has been run.
ObjsLoaded ==
    \/ \E i \in DOMAIN deferred : deferred[i].kind = "objs"
    \/ \E i \in DOMAIN closeLog : closeLog[i].kind = "objs"

\* C17: a failure of a startup step (resource limits, discovery, address
\* resolution, program load) ends the run with status 1 before any attempt:
\* no attempt is ever made or under way unless every startup step succeeded.
C17_StartupFatalBeforeAttach ==
    /\ fatalAt \in StartupFatals =>
          (pc = "exited" /\ exitStatus = 1 /\ attempts = <<>> /\ ~cfgWritten)
    /\ (attempts # <<>> \/ pc = "attach") =>
          (/\ fatalAt \notin StartupFatals
           /\ addr2name
           /\ ObjsLoaded)

C17_Witness == fatalAt = "load" /\ DOMAIN funcs # {} /\ attempts = <<>>

\* C18: a read that fails with an error other than Closed renders nothing:
\* the step that deals with it logs the error, leaves the output and the
\* reused event variable as they were, and takes main back to rd.Read().
C18_FailedReadRendersNothing ==
    [][(pc = "body" /\ err = "other")
        => (/\ output' = output
            /\ event' = event
            /\ pc' \in {"body", "read", "exited"}
            /\ pc' = "read" =>
                  (readErrs' = readErrs + 1 /\ handled' = handled + 1))]_vars

C18_Witness ==
    /\ pc = "read"
    /\ handled = 2
    /\ IsValid(delivered[1])
    /\ IsReadError(delivered[2])
    /\ output = <<1>>
    /\ event = 1
    /\ readErrs = 1

\* C19: when the select after a print finds ctx.Done() closed the loop is not
\* left: main goes to the next rd.Read(); records read while the reader is
\* still open are rendered whether or not the signal was raised, and the event
\* loop is left only after a read that returned Closed.
C19_SelectDoesNotLeaveLoop ==
    /\ [][selDone' # selDone
            => (/\ pc = "body" /\ cancelled
                /\ pc' = "read"
                /\ output' = Append(output, event'))]_vars
    /\ []((pc = "unwind" /\ observer # "none") => err = "closed")
    /\ [](selDone > 0 => output = EventsOf(Handled))

C19_Witness ==
    /\ pc = "read"
    /\ rd = "open"
    /\ selDone = 2
    /\ Len(output) = 2

IsOk(a) == a.res = "ok"
AttachOrder == SelectSeq(attempts, IsOk)
RdCloses == Len(closeLog) - Len(AttachOrder) - 2

\* C20: when main returns and its deferred calls have run, the releases were
\* made in one order: every close of the perf reader first (if a reader was
\* constructed), then the kprobes in reverse order of attachment, then the
\* loaded objects, then stop(); the objects are never closed while an attached
\* kprobe is still open.
C20_ReleaseOrder ==
    /\ exitStatus = 0 =>
          /\ RdCloses = (IF rd = "none" THEN 0 ELSE 2)
          /\ \A i \in 1..RdCloses : closeLog[i].kind = "rd"
          /\ \A i \in 1..Len(AttachOrder) :
                closeLog[RdCloses + i] =
                   [kind |-> "kp",
                    name |-> AttachOrder[Len(AttachOrder) + 1 - i].name]
          /\ closeLog[Len(closeLog) - 1].kind = "objs"
          /\ closeLog[Len(closeLog)].kind = "stop"
    /\ (\E i \in DOMAIN closeLog : closeLog[i].kind = "objs")
          => (AllReleasedOnce /\ fatalAt = "")

C20_Witness ==
    /\ exitStatus = 0
    /\ rd = "closed"
    /\ Len(AttachOrder) = 2
    /\ AttachOrder[1].name = 2
    /\ KpCloses[1].name = 1

====
